---- MODULE Spec2Model ----
(***************************************************************************)
(* The incremental data cache and run ledger of the weekly review pulse:   *)
(* DataManager (src/src/data_manager.py) over its three SQLite tables,     *)
(* reviews, scrape_history and run_history, and the schema initializer     *)
(* ensure_initialized (src/src/db_init.py) under the threads of a process. *)
(*                                                                         *)
(* Every DataManager method opens its own connection.  A method that is    *)
(* one transaction is one action.  purge_data is several: its guard is a   *)
(* SELECT outside any transaction, its three DELETEs open a transaction    *)
(* that the commit ends, and _init_db runs after that; calls of other      *)
(* threads interleave between those steps, writers waiting while the       *)
(* purge's transaction holds the write lock.                               *)
(***************************************************************************)
EXTENDS Integers, Sequences, FiniteSets, TLC

VARIABLES
    reviews,         \* rows of table reviews
    scrape_history,  \* rows of table scrape_history
    run_history,     \* rows of table run_history
    purge_pc,        \* where the thread inside purge_data stands
    tx,              \* tables whose DELETE is pending in purge_data's transaction
    last,            \* the latest finished call: its name and what it returned or raised
    initialized,     \* db_init._initialized, the flag of the process
    init_pc,         \* where each thread inside ensure_initialized stands
    schema_created,  \* how many times _create_schema has run to its commit
    clock,           \* datetime.now(), in ticks since the calendar's first midnight
    db,              \* what self.db of the PulseOrchestrator resolves to
    run,             \* the locals of each worker thread inside run_pipeline
    manifest,        \* completed_weeks of data/processed/run_manifest.json
    artifacts,       \* whether data/raw and data/processed hold files of a run
    log,             \* whether logs/pulse_pipeline.log holds the lines of past runs
    purge_all_pc,    \* where the thread inside purge_all_data stands
    futures          \* what POST /trigger handed to its executor, by run id

vars == <<reviews, scrape_history, run_history, purge_pc, tx, last,
          initialized, init_pc, schema_created,
          clock, db, run, manifest, artifacts, log, purge_all_pc, futures>>
tables == <<reviews, scrape_history, run_history>>
\* the state of module db_init, which no DataManager method reads or writes
db_init == <<initialized, init_pc, schema_created>>
\* the state of the orchestrator and of the API's executor, which no
\* DataManager method reads or writes
pipeline == <<clock, db, run, manifest, artifacts, log, purge_all_pc, futures>>

----------------------------------------------------------------------------
(* Bounds *)

MaxDay == 2          \* calendar days 0..MaxDay
TicksPerDay == 2     \* times of day 0..TicksPerDay-1 (0 is midnight)
MaxBatch == 2        \* records in one save_reviews batch
MaxThreads == 2      \* threads of the process that call ensure_initialized
MaxWorkers == 2      \* threads that are inside run_pipeline at one time
MaxTriggers == 1     \* requests POST /trigger has accepted

----------------------------------------------------------------------------
(* Values *)

None == "None"
Platforms == {"ios", "android"}
Days == 0..MaxDay
Tods == 0..(TicksPerDay - 1)
Threads == 1..MaxThreads

\* datetime: a calendar day and a time of day
DateTimes == [day : Days, tod : Tods]
NoDateTime == [day |-> -1, tod |-> -1]         \* current_start = None

time_min == 0                                  \* datetime.min.time()
time_max == TicksPerDay - 1                    \* datetime.max.time()
combine(day, tod) == [day |-> day, tod |-> tod]

\* position of a datetime on the time line
ticks(dt) == dt.day * TicksPerDay + dt.tod
\* (end_date - start_date).days: whole days of the difference, rounded down
timedelta_days(start_date, end_date) ==
    (ticks(end_date) - ticks(start_date)) \div TicksPerDay

\* date.isoformat(): fixed-width text, here two digits, compared as text by SQL
date_isoformat(day) == <<day \div 10, day % 10>>
\* SQL text comparison a <= b of two texts of the same length
text_le(a, b) ==
    \/ a = b
    \/ \E i \in 1..Len(a) :
          /\ a[i] < b[i]
          /\ \A j \in 1..(i - 1) : a[j] = b[j]

----------------------------------------------------------------------------
(* Coverage Tracker: scrape_history(platform, scrape_date) *)

\* days_needed = (end_date - start_date).days + 1
days_needed(start_date, end_date) == timedelta_days(start_date, end_date) + 1

\* SELECT ... scrape_date > ? in place of >=: the first day is never found
covered_days_after_start(start_date, end_date, platform) ==
    { row.scrape_date : row \in
        { r \in scrape_history :
            /\ r.platform = platform
            /\ ~text_le(r.scrape_date, date_isoformat(start_date.day))
            /\ text_le(r.scrape_date, date_isoformat(end_date.day)) } }

\* the SELECT without platform = ?: the days of every platform
covered_days_any_platform(start_date, end_date, platform) ==
    { row.scrape_date : row \in
        { r \in scrape_history :
            /\ text_le(date_isoformat(start_date.day), r.scrape_date)
            /\ text_le(r.scrape_date, date_isoformat(end_date.day)) } }

\* SELECT scrape_date FROM scrape_history
\*  WHERE platform = ? AND scrape_date >= ? AND scrape_date <= ?
covered_days(start_date, end_date, platform) ==
    { row.scrape_date : row \in
        { r \in scrape_history :
            /\ r.platform = platform
            /\ text_le(date_isoformat(start_date.day), r.scrape_date)
            /\ text_le(r.scrape_date, date_isoformat(end_date.day)) } }

\* the loop "for i in range(days_needed)" from its i-th round on, with the
\* list missing_ranges and the pointer current_start as they stand
RECURSIVE walk_days(_, _, _, _, _, _)
walk_days(i, n, start_date, covered, missing_ranges, current_start) ==
    IF i >= n
    THEN [missing_ranges |-> missing_ranges, current_start |-> current_start]
    ELSE LET day == start_date.day + i
             day_str == date_isoformat(day)
         IN IF day_str \notin covered
            THEN walk_days(i + 1, n, start_date, covered, missing_ranges,
                           IF current_start = NoDateTime
                           THEN combine(day, time_min)
                           ELSE current_start)
            ELSE IF current_start # NoDateTime
                 THEN walk_days(i + 1, n, start_date, covered,
                                Append(missing_ranges,
                                       <<current_start, combine(day - 1, time_max)>>),
                                NoDateTime)
                 ELSE walk_days(i + 1, n, start_date, covered, missing_ranges,
                                NoDateTime)

\* the list get_missing_ranges returns, read from the committed scrape_history
missing_ranges_of(start_date, end_date, platform) ==
    LET w == walk_days(0, days_needed(start_date, end_date), start_date,
                       covered_days(start_date, end_date, platform),
                       <<>>, NoDateTime)
    IN IF w.current_start # NoDateTime
       THEN Append(w.missing_ranges, <<w.current_start, end_date>>)
       ELSE w.missing_ranges

\* the row of the first day alone
scraped_rows_first_day(platform, start_date, end_date) ==
    { [platform |-> platform, scrape_date |-> date_isoformat(start_date.day)] }

\* the rows mark_scraped inserts: one per i in range(days)
scraped_rows(platform, start_date, end_date) ==
    LET days == timedelta_days(start_date, end_date) + 1
    IN { [platform |-> platform, scrape_date |-> date_isoformat(start_date.day + i)] :
           i \in 0..(days - 1) }

\* the write lock of SQLite is held from purge_data's first DELETE to its
\* commit or rollback; other writers wait for it
WriteLocked == purge_pc \in {"deleted_run_history", "deleted_scrape_history", "deleted_reviews"}

get_missing_ranges(start_date, end_date, platform) ==
    /\ last' = [op |-> "get_missing_ranges",
                ret |-> missing_ranges_of(start_date, end_date, platform)]
    /\ UNCHANGED <<reviews, scrape_history, run_history, purge_pc, tx>>
    /\ UNCHANGED db_init
    /\ UNCHANGED pipeline

has_platform_history(platform) ==
    /\ last' = [op |-> "has_platform_history",
                ret |-> (\E r \in scrape_history : r.platform = platform)]
    /\ UNCHANGED <<reviews, scrape_history, run_history, purge_pc, tx>>
    /\ UNCHANGED db_init
    /\ UNCHANGED pipeline

\* INSERT OR IGNORE on the primary key (platform, scrape_date), then commit
mark_scraped(platform, start_date, end_date) ==
    /\ ~WriteLocked
    /\ scrape_history' = scrape_history \cup scraped_rows(platform, start_date, end_date)
    /\ last' = [op |-> "mark_scraped",
                ret |-> None]
    /\ UNCHANGED <<reviews, run_history, purge_pc, tx>>
    /\ UNCHANGED db_init
    /\ UNCHANGED pipeline

----------------------------------------------------------------------------
(* Run Ledger: run_history, one record per row *)

\* a dict is a function from its keys; d.get(k, default)
get(d, k, default) == IF k \in DOMAIN d THEN d[k] ELSE default

\* the VALUES tuple with the default of the migrations for status
run_values_default_succeeded(run_data, now) ==
    [run_id            |-> run_data["run_id"],
     status            |-> get(run_data, "status", "succeeded"),
     trigger_source    |-> get(run_data, "trigger_source", "manual"),
     triggered_by      |-> get(run_data, "triggered_by", None),
     start_date        |-> get(run_data, "start_date", None),
     end_date          |-> get(run_data, "end_date", None),
     triggered_at      |-> get(run_data, "triggered_at", now),
     started_at        |-> get(run_data, "started_at", None),
     completed_at      |-> get(run_data, "completed_at", None),
     reviews_processed |-> get(run_data, "reviews_processed", None),
     themes_identified |-> get(run_data, "themes_identified", None),
     error_message     |-> get(run_data, "error_message", None)]

\* the VALUES tuple of upsert_run_log; now is datetime.now().isoformat()
run_values(run_data, now) ==
    [run_id            |-> run_data["run_id"],
     status            |-> get(run_data, "status", "triggered"),
     trigger_source    |-> get(run_data, "trigger_source", "manual"),
     triggered_by      |-> get(run_data, "triggered_by", None),
     start_date        |-> get(run_data, "start_date", None),
     end_date          |-> get(run_data, "end_date", None),
     triggered_at      |-> get(run_data, "triggered_at", now),
     started_at        |-> get(run_data, "started_at", None),
     completed_at      |-> get(run_data, "completed_at", None),
     reviews_processed |-> get(run_data, "reviews_processed", None),
     themes_identified |-> get(run_data, "themes_identified", None),
     error_message     |-> get(run_data, "error_message", None)]

\* a plain INSERT with no primary key to stop it
insert_plain(rows, row) == rows \cup {row}

\* a replace that deletes every row, not only the rows in conflict
insert_after_delete_all(rows, row) == {row}

\* INSERT OR REPLACE INTO run_history: the rows in conflict on the primary key
\* run_id are deleted, then the new row is inserted
insert_or_replace(rows, row) ==
    {r \in rows : r.run_id # row.run_id} \cup {row}

\* the dict "fields" without the filter on allowed
update_fields_unfiltered(status, kwargs) ==
    [k \in (DOMAIN kwargs) \cup {"status"} |->
        IF k = "status" THEN status ELSE kwargs[k]]

\* the dict "fields" of update_run_status: the allowed kwargs, then status
allowed == {"started_at", "completed_at", "reviews_processed",
            "themes_identified", "error_message"}
update_fields(status, kwargs) ==
    [k \in ((DOMAIN kwargs) \cap allowed) \cup {"status"} |->
        IF k = "status" THEN status ELSE kwargs[k]]

\* UPDATE run_history SET <fields> WHERE run_id = ?
sql_update(rows, run_id, fields) ==
    { IF r.run_id = run_id
      THEN [c \in DOMAIN r |-> IF c \in DOMAIN fields THEN fields[c] ELSE r[c]]
      ELSE r : r \in rows }

\* run_data['run_id'] raises KeyError when the key is missing; the except
\* clause logs it and the call returns
upsert_run_log(run_data, now) ==
    /\ ~WriteLocked
    /\ run_history' = IF "run_id" \in DOMAIN run_data
                      THEN insert_or_replace(run_history, run_values(run_data, now))
                      ELSE run_history
    /\ last' = [op |-> "upsert_run_log", ret |-> None]
    /\ UNCHANGED <<reviews, scrape_history, purge_pc, tx>>
    /\ UNCHANGED db_init
    /\ UNCHANGED pipeline

update_run_status(run_id, status, kwargs) ==
    /\ ~WriteLocked
    /\ run_history' = sql_update(run_history, run_id, update_fields(status, kwargs))
    /\ last' = [op |-> "update_run_status", ret |-> None]
    /\ UNCHANGED <<reviews, scrape_history, purge_pc, tx>>
    /\ UNCHANGED db_init
    /\ UNCHANGED pipeline

\* the except clause of upsert_run_log: sqlite3 raised (the database stayed
\* locked beyond the timeout, the disk failed), the error is logged and the
\* call returns as a call that wrote does
upsert_run_log_except ==
    /\ last' = [op |-> "upsert_run_log", ret |-> None]
    /\ UNCHANGED <<reviews, scrape_history, run_history, purge_pc, tx>>
    /\ UNCHANGED db_init
    /\ UNCHANGED pipeline

\* the except clause of update_run_status
update_run_status_except ==
    /\ last' = [op |-> "update_run_status", ret |-> None]
    /\ UNCHANGED <<reviews, scrape_history, run_history, purge_pc, tx>>
    /\ UNCHANGED db_init
    /\ UNCHANGED pipeline

\* {} and []
EmptyDict == <<>>
EmptyList == <<>>

\* SELECT * FROM run_history WHERE run_id = ?; dict(row) if row else {}
get_run_log(run_id) ==
    /\ last' = [op |-> "get_run_log",
                ret |-> IF \E r \in run_history : r.run_id = run_id
                        THEN CHOOSE r \in run_history : r.run_id = run_id
                        ELSE EmptyDict]
    /\ UNCHANGED <<reviews, scrape_history, run_history, purge_pc, tx>>
    /\ UNCHANGED db_init
    /\ UNCHANGED pipeline

\* the except clause of get_run_log: the error is logged, {} is returned
get_run_log_except ==
    /\ last' = [op |-> "get_run_log", ret |-> EmptyDict]
    /\ UNCHANGED <<reviews, scrape_history, run_history, purge_pc, tx>>
    /\ UNCHANGED db_init
    /\ UNCHANGED pipeline

\* the place of a triggered_at in SQLite's order: NULL before every text
time_rank(t) == IF t = None THEN 0 ELSE IF t = "T1" THEN 1 ELSE 2

\* ORDER BY triggered_at ASC
order_by_triggered_at_asc(rows) ==
    { s \in [1..Cardinality(rows) -> rows] :
        /\ \A j, k \in DOMAIN s : j # k => s[j] # s[k]
        /\ \A j, k \in DOMAIN s :
              j < k => time_rank(s[j].triggered_at) <= time_rank(s[k].triggered_at) }

\* ORDER BY triggered_at DESC: the orders the rows may come in, rows with
\* equal triggered_at in either order
order_by_triggered_at_desc(rows) ==
    { s \in [1..Cardinality(rows) -> rows] :
        /\ \A j, k \in DOMAIN s : j # k => s[j] # s[k]
        /\ \A j, k \in DOMAIN s :
              j < k => time_rank(s[j].triggered_at) >= time_rank(s[k].triggered_at) }

\* LIMIT ?
sql_limit(s, limit) == [k \in 1..(IF limit < Len(s) THEN limit ELSE Len(s)) |-> s[k]]

list_run_history(limit) ==
    /\ \E s \in order_by_triggered_at_desc(run_history) :
          last' = [op |-> "list_run_history", ret |-> sql_limit(s, limit)]
    /\ UNCHANGED <<reviews, scrape_history, run_history, purge_pc, tx>>
    /\ UNCHANGED db_init
    /\ UNCHANGED pipeline

\* the except clause of list_run_history: the error is logged, [] is returned
list_run_history_except ==
    /\ last' = [op |-> "list_run_history", ret |-> EmptyList]
    /\ UNCHANGED <<reviews, scrape_history, run_history, purge_pc, tx>>
    /\ UNCHANGED db_init
    /\ UNCHANGED pipeline

----------------------------------------------------------------------------
(* Review Store: reviews, one record per row *)

\* datetime.isoformat(): the date's text followed by the time of day
datetime_isoformat(dt) == date_isoformat(dt.day) \o <<dt.tod>>

\* r['date'] if isinstance(r['date'], str) else r['date'].isoformat()
date_text(date) ==
    IF date.type = "str" THEN date.value ELSE datetime_isoformat(date.value)

\* r['platform'], r['rating'] and r['date'] raise KeyError on a missing key
raises_key_error(r) == ~({"platform", "rating", "date"} \subseteq DOMAIN r)

\* the VALUES tuple of save_reviews; id is never given; raw_data is
\* json.dumps(r, default=json_serial), which writes a datetime as its isoformat
review_values(r) ==
    [id          |-> None,
     platform    |-> r["platform"],
     rating      |-> r["rating"],
     title       |-> get(r, "title", ""),
     review_text |-> get(r, "review_text", get(r, "reviewText", "")),
     date        |-> date_text(r["date"]),
     raw_data    |-> [k \in DOMAIN r |->
                        IF k = "date" THEN date_text(r["date"]) ELSE r[k]]]

\* the conflict of PRIMARY KEY(id) alone, which a NULL id never raises
unique_conflict_on_id(rows, row) ==
    \E x \in rows : x.id = row.id /\ row.id # None

\* UNIQUE(platform, review_text, date)
unique_conflict(rows, row) ==
    \E x \in rows : /\ x.platform = row.platform
                    /\ x.review_text = row.review_text
                    /\ x.date = row.date

RECURSIVE save_loop(_, _, _, _, _)
\* the loop with the try around it: the first record that raises ends it
save_loop_abort_on_error(batch, i, rows, total_changes, saved_count) ==
    IF i > Len(batch)
    THEN [rows |-> rows, saved_count |-> saved_count]
    ELSE IF raises_key_error(batch[i])
         THEN [rows |-> rows, saved_count |-> saved_count]
         ELSE LET row == review_values(batch[i])
                  ignored == unique_conflict(rows, row)
                  changes == IF ignored THEN total_changes ELSE total_changes + 1
              IN save_loop(batch, i + 1,
                           IF ignored THEN rows ELSE rows \cup {row},
                           changes,
                           IF changes > 0 THEN saved_count + 1 ELSE saved_count)

\* the loop "for r in reviews" from its i-th record on; total_changes is
\* conn.total_changes, the rows changed on this connection since it was opened
save_loop(batch, i, rows, total_changes, saved_count) ==
    IF i > Len(batch)
    THEN [rows |-> rows, saved_count |-> saved_count]
    ELSE IF raises_key_error(batch[i])
         THEN save_loop(batch, i + 1, rows, total_changes, saved_count)
         ELSE LET row == review_values(batch[i])
                  ignored == unique_conflict(rows, row)
                  changes == IF ignored THEN total_changes ELSE total_changes + 1
              IN save_loop(batch, i + 1,
                           IF ignored THEN rows ELSE rows \cup {row},
                           changes,
                           IF changes > 0 THEN saved_count + 1 ELSE saved_count)

save_reviews(batch) ==
    /\ ~WriteLocked
    /\ LET done == save_loop(batch, 1, reviews, 0, 0)
       IN /\ reviews' = done.rows
          /\ last' = [op |-> "save_reviews", ret |-> done.saved_count]
    /\ UNCHANGED <<scrape_history, run_history, purge_pc, tx>>
    /\ UNCHANGED db_init
    /\ UNCHANGED pipeline

\* SELECT * FROM reviews WHERE date > ? AND date <= ?
cached_rows_after_start(start_date, end_date) ==
    { r \in reviews : /\ ~text_le(r.date, datetime_isoformat(start_date))
                      /\ text_le(r.date, datetime_isoformat(end_date)) }

\* SELECT * FROM reviews WHERE date >= ? AND date <= ?, the two bounds being
\* start_date.isoformat() and end_date.isoformat(), compared as text
cached_rows(start_date, end_date) ==
    { r \in reviews : /\ text_le(datetime_isoformat(start_date), r.date)
                      /\ text_le(r.date, datetime_isoformat(end_date)) }

\* the list of the rows as dicts, in no order: a set
get_cached_reviews(start_date, end_date) ==
    /\ last' = [op |-> "get_cached_reviews", ret |-> cached_rows(start_date, end_date)]
    /\ UNCHANGED <<reviews, scrape_history, run_history, purge_pc, tx>>
    /\ UNCHANGED db_init
    /\ UNCHANGED pipeline

----------------------------------------------------------------------------
(* Purge Coordinator *)

ACTIVE == {"triggered", "running"}

\* purge_data returns to its caller.  Called by purge_all_data through
\* reset_database, the thread goes on in purge_all_data: an exception
\* leaves it at once, a normal return is followed by the truncation of the
\* log file and return True
reset_database_returns(raised) ==
    IF purge_all_pc = "reset_database"
    THEN /\ purge_all_pc' = "idle"
         /\ log' = IF raised THEN log ELSE FALSE
         /\ UNCHANGED <<clock, db, run, manifest, artifacts, futures>>
    ELSE UNCHANGED pipeline

\* the count of the running rows alone
active_count_running_only(rows) == Cardinality({r \in rows : r.status = "running"})

\* SELECT COUNT(*) FROM run_history WHERE status IN (?,?)
active_count(rows) == Cardinality({r \in rows : r.status \in ACTIVE})

\* a DELETE that is committed on its own
sql_delete_autocommit(table) ==
    /\ reviews' = IF table = "reviews" THEN {} ELSE reviews
    /\ scrape_history' = IF table = "scrape_history" THEN {} ELSE scrape_history
    /\ run_history' = IF table = "run_history" THEN {} ELSE run_history
    /\ tx' = tx

\* a DELETE inside the connection's transaction: pending until the commit
sql_delete(table) ==
    /\ tx' = tx \cup {table}
    /\ UNCHANGED <<reviews, scrape_history, run_history>>

\* a commit that loses the last DELETE
sql_commit_without_reviews ==
    /\ reviews' = reviews
    /\ scrape_history' = IF "scrape_history" \in tx THEN {} ELSE scrape_history
    /\ run_history' = IF "run_history" \in tx THEN {} ELSE run_history
    /\ tx' = {}

\* conn.commit(): the pending deletes take effect together
sql_commit ==
    /\ reviews' = IF "reviews" \in tx THEN {} ELSE reviews
    /\ scrape_history' = IF "scrape_history" \in tx THEN {} ELSE scrape_history
    /\ run_history' = IF "run_history" \in tx THEN {} ELSE run_history
    /\ tx' = {}

\* conn.rollback(): the pending deletes are dropped
sql_rollback ==
    /\ tx' = {}
    /\ UNCHANGED <<reviews, scrape_history, run_history>>

\* the guard: the SELECT runs outside any transaction (sqlite3 opens one
\* only before a data-changing statement); RuntimeError when a run is active
purge_data_guard ==
    /\ purge_pc = "idle"
    /\ IF active_count(run_history) > 0
       THEN /\ purge_pc' = "idle"
            /\ last' = [op |-> "purge_data", ret |-> "RuntimeError"]
            /\ reset_database_returns(TRUE)
       ELSE /\ purge_pc' = "guard_passed"
            /\ UNCHANGED last
            /\ UNCHANGED pipeline
    /\ UNCHANGED <<reviews, scrape_history, run_history, tx>>
    /\ UNCHANGED db_init

\* the three DELETEs, in the order of the code
purge_data_delete ==
    /\ \/ /\ purge_pc = "guard_passed"
          /\ sql_delete("run_history")
          /\ purge_pc' = "deleted_run_history"
       \/ /\ purge_pc = "deleted_run_history"
          /\ sql_delete("scrape_history")
          /\ purge_pc' = "deleted_scrape_history"
       \/ /\ purge_pc = "deleted_scrape_history"
          /\ sql_delete("reviews")
          /\ purge_pc' = "deleted_reviews"
    /\ UNCHANGED last
    /\ UNCHANGED db_init
    /\ UNCHANGED pipeline

purge_data_commit ==
    /\ purge_pc = "deleted_reviews"
    /\ sql_commit
    /\ purge_pc' = "committed"
    /\ UNCHANGED last
    /\ UNCHANGED db_init
    /\ UNCHANGED pipeline

\* a DELETE or the commit raises: except clause, rollback, re-raise
purge_data_rollback ==
    /\ purge_pc \in {"guard_passed", "deleted_run_history",
                     "deleted_scrape_history", "deleted_reviews"}
    /\ sql_rollback
    /\ purge_pc' = "idle"
    /\ last' = [op |-> "purge_data", ret |-> "sqlite3.Error"]
    /\ UNCHANGED db_init
    /\ reset_database_returns(TRUE)

\* CREATE TABLE without IF NOT EXISTS over a dropped table: no row is left
create_table(rows) == {}

\* CREATE TABLE IF NOT EXISTS over a table that exists: its rows stay
create_table_if_not_exists(rows) == rows

\* self._init_db(): CREATE TABLE / INDEX IF NOT EXISTS, no row is touched
purge_data_init_db ==
    /\ purge_pc = "committed"
    /\ purge_pc' = "idle"
    /\ last' = [op |-> "purge_data", ret |-> None]
    /\ reviews' = create_table_if_not_exists(reviews)
    /\ scrape_history' = create_table_if_not_exists(scrape_history)
    /\ run_history' = create_table_if_not_exists(run_history)
    /\ UNCHANGED tx
    /\ UNCHANGED db_init
    /\ reset_database_returns(FALSE)

purge_data ==
    \/ purge_data_guard
    \/ purge_data_delete
    \/ purge_data_commit
    \/ purge_data_rollback
    \/ purge_data_init_db

----------------------------------------------------------------------------
(* Schema Initializer: db_init.ensure_initialized, called by any thread *)

\* if _initialized: return
ensure_initialized_check(t) ==
    /\ init_pc[t] = "idle"
    /\ IF initialized
       THEN /\ init_pc' = init_pc
            /\ last' = [op |-> "ensure_initialized", ret |-> None]
       ELSE /\ init_pc' = [init_pc EXCEPT ![t] = "checked"]
            /\ UNCHANGED last
    /\ UNCHANGED <<reviews, scrape_history, run_history, purge_pc, tx>>
    /\ UNCHANGED <<initialized, schema_created>>
    /\ UNCHANGED pipeline

\* _create_schema(db_path) to its commit: the tables, the migrations and
\* the indexes
create_schema(t) ==
    /\ init_pc[t] = "checked"
    /\ reviews' = create_table_if_not_exists(reviews)
    /\ scrape_history' = create_table_if_not_exists(scrape_history)
    /\ run_history' = create_table_if_not_exists(run_history)
    /\ schema_created' = schema_created + 1
    /\ init_pc' = [init_pc EXCEPT ![t] = "created"]
    /\ UNCHANGED <<purge_pc, tx, last, initialized>>
    /\ UNCHANGED pipeline

\* _create_schema raises: logger.exception, raise; the flag stays False
create_schema_raises(t) ==
    /\ init_pc[t] = "checked"
    /\ init_pc' = [init_pc EXCEPT ![t] = "idle"]
    /\ last' = [op |-> "ensure_initialized", ret |-> "sqlite3.Error"]
    /\ UNCHANGED <<reviews, scrape_history, run_history, purge_pc, tx>>
    /\ UNCHANGED <<initialized, schema_created>>
    /\ UNCHANGED pipeline

\* _initialized = True, and the call returns
ensure_initialized_return(t) ==
    /\ init_pc[t] = "created"
    /\ initialized' = TRUE
    /\ init_pc' = [init_pc EXCEPT ![t] = "idle"]
    /\ last' = [op |-> "ensure_initialized", ret |-> None]
    /\ UNCHANGED <<reviews, scrape_history, run_history, purge_pc, tx>>
    /\ UNCHANGED schema_created
    /\ UNCHANGED pipeline

ensure_initialized(t) ==
    \/ ensure_initialized_check(t)
    \/ create_schema(t)
    \/ create_schema_raises(t)
    \/ ensure_initialized_return(t)

----------------------------------------------------------------------------
(* Inputs *)

RunIds == {"r1", "r2"}
Statuses == {"triggered", "running", "succeeded", "failed"}
Times == {"T1", "T2"}

\* records handed to upsert_run_log for run id
RunData(id) ==
    { [run_id |-> id, status |-> "triggered", triggered_at |-> "T1"],
      [run_id |-> id, status |-> "running", triggered_at |-> "T1"],
      [run_id |-> id, start_date |-> "D0", end_date |-> "D1",
       reviews_processed |-> "42", themes_identified |-> "3"],
      [run_id |-> id, status |-> "succeeded", trigger_source |-> "api",
       triggered_by |-> "alice", completed_at |-> "T2"],
      [run_id |-> id, status |-> "paused", error_message |-> "held"] }
NoRunId == [status |-> "triggered", triggered_at |-> "T1"]

\* keyword arguments handed to update_run_status
Kwargs ==
    { <<>>,
      [started_at |-> "T1"],
      [completed_at |-> "T2", reviews_processed |-> "42", themes_identified |-> "3"],
      [error_message |-> "boom", triggered_by |-> "mallory"] }

\* records handed to save_reviews; the third lacks rating
WellFormedRecords ==
    { [platform |-> "ios", rating |-> 5, reviewText |-> "Great app!",
       date |-> [type |-> "str", value |-> <<0, 0, 0>>]],
      [platform |-> "android", rating |-> 4, title |-> "ui", review_text |-> "Nice UI",
       date |-> [type |-> "datetime", value |-> combine(1, time_min)]],
      \* the key of the first record, as a scraper delivers it, another rating
      [platform |-> "ios", rating |-> 1, title |-> "", review_text |-> "Great app!",
       date |-> [type |-> "datetime", value |-> combine(0, time_min)]],
      [platform |-> "android", rating |-> 3, title |-> "", review_text |-> "Crash",
       date |-> [type |-> "datetime", value |-> combine(1, time_max)]] }
\* records that lack rating, date, platform
MalformedRecords ==
    { [platform |-> "ios", reviewText |-> "no rating",
       date |-> [type |-> "str", value |-> <<0, 0, 0>>]],
      [platform |-> "android", rating |-> 2, review_text |-> "no date"],
      [rating |-> 3, review_text |-> "no platform",
       date |-> [type |-> "datetime", value |-> combine(1, time_min)]] }
ReviewRecords == WellFormedRecords \cup MalformedRecords
Batches == UNION { [1..n -> ReviewRecords] : n \in 0..MaxBatch }

----------------------------------------------------------------------------
(* Orchestrator: PulseOrchestrator.run_pipeline and purge_all_data          *)
(* (src/src/orchestrator.py), and the trigger of src/api/routes.py.  A      *)
(* thread inside run_pipeline takes one step per DataManager call.          *)

Workers == 1..MaxWorkers
TriggerIds == 1..MaxTriggers

\* self.db: PulseOrchestrator.__init__ binds self.data_manager and no
\* attribute db, so the lookup raises AttributeError; the run the tests of
\* the pipeline expect is the one where it yields the DataManager
db_lookup == {None, "data_manager"}

\* datetime.now(): the clock runs through the first day to the next midnight
MaxClock == TicksPerDay
datetime_now == combine(clock \div TicksPerDay, clock % TicksPerDay)
isoformat_now == IF clock = 0 THEN "T1" ELSE "T2"

\* the days of a calendar week, on the scale of the model's calendar
DaysPerWeek == 1

\* datetime.now().strftime("%Y-W%W")
get_week_id == <<"week", datetime_now.day \div DaysPerWeek>>

\* custom_{start %Y%m%d}_{end %Y%m%d}_{now %H%M%S}
custom_run_id(current_start, current_end) ==
    <<"custom", current_start.day, current_end.day, datetime_now.tod>>

\* run_{uuid4}_{now}: the n-th request draws the n-th uuid
trigger_run_id(n) == <<"run", n>>

\* current_end - timedelta(weeks=self.weeks_back): the lookback reaches the
\* first day of the model's calendar, at the time of day of current_end
lookback(current_end) == combine(0, current_end.tod)

\* week_id in manifest["completed_weeks"]; a missing file has none
already_run_this_week == \E j \in DOMAIN manifest : manifest[j] = get_week_id

\* completed_weeks after _mark_week_completed
marked_week(completed_weeks, week_id) ==
    IF \E j \in DOMAIN completed_weeks : completed_weeks[j] = week_id
    THEN completed_weeks
    ELSE Append(completed_weeks, week_id)

\* the reviews the two stores serve, newest last; model_dump of ReviewSchema
\* gives date as a datetime
Published ==
    << [platform |-> "ios", rating |-> 1, title |-> "", review_text |-> "Great app!",
        date |-> [type |-> "datetime", value |-> combine(0, time_min)]],
       [platform |-> "android", rating |-> 4, title |-> "ui", review_text |-> "Nice UI",
        date |-> [type |-> "datetime", value |-> combine(1, time_min)]],
       [platform |-> "android", rating |-> 3, title |-> "", review_text |-> "Crash",
        date |-> [type |-> "datetime", value |-> combine(1, time_max)]],
       [platform |-> "ios", rating |-> 2, title |-> "", review_text |-> "Slow",
        date |-> [type |-> "datetime", value |-> combine(1, time_max)]] >>

in_range(r, platform, start_date, end_date) ==
    /\ r.platform = platform
    /\ ticks(start_date) <= ticks(r.date.value)
    /\ ticks(r.date.value) <= ticks(end_date)

\* scrape_app_store / scrape_play_store of ScraperEngine(start_date, end_date)
\* when the fetch works: the entries with start_date <= date <= end_date
scrape(platform, start_date, end_date) ==
    SelectSeq(Published, LAMBDA r : in_range(r, platform, start_date, end_date))

\* platforms, in the order of the loop
PlatformList == <<"ios", "android">>

NoRun == <<>>
IdleRun ==
    [pc |-> "idle",
     start_date |-> NoDateTime, end_date |-> NoDateTime,
     current_start |-> NoDateTime, current_end |-> NoDateTime,
     run_id |-> NoRun, platform |-> 1, missing_ranges |-> <<>>, k |-> 1,
     fetch_ok |-> TRUE, scraper_calls |-> 0, reviews_count |-> 0]

is_custom_run(r) == r.start_date # NoDateTime \/ r.end_date # NoDateTime

\* run_pipeline returns status to its caller
run_pipeline_returns(w, status) ==
    /\ run' = [run EXCEPT ![w] = IdleRun]
    /\ last' = [op |-> "run_pipeline", ret |-> status]

\* the loop "for platform in platforms" moves on; after the last platform
\* comes get_cached_reviews
next_platform(r) ==
    IF r.platform < Len(PlatformList)
    THEN [r EXCEPT !.platform = @ + 1, !.pc = "platform",
                   !.missing_ranges = <<>>, !.k = 1]
    ELSE [r EXCEPT !.pc = "cached", !.missing_ranges = <<>>, !.k = 1]

\* lines 78-97: the date defaults, the run id and the idempotency check
run_pipeline_enter(w, force, start_date, end_date) ==
    /\ run[w].pc = "idle"
    /\ LET current_end == IF end_date # NoDateTime THEN end_date ELSE datetime_now
           current_start == IF start_date # NoDateTime THEN start_date
                            ELSE lookback(current_end)
           custom == start_date # NoDateTime \/ end_date # NoDateTime
           run_id == IF custom THEN custom_run_id(current_start, current_end)
                     ELSE get_week_id
       IN IF ~force /\ ~custom /\ already_run_this_week
          THEN /\ run' = [run EXCEPT ![w] = IdleRun]
               /\ last' = [op |-> "run_pipeline", ret |-> "skipped"]
          ELSE /\ run' = [run EXCEPT ![w] =
                            [IdleRun EXCEPT !.pc = "platform",
                                            !.start_date = start_date,
                                            !.end_date = end_date,
                                            !.current_start = current_start,
                                            !.current_end = current_end,
                                            !.run_id = run_id]]
               /\ UNCHANGED last
    /\ log' = TRUE
    /\ UNCHANGED <<reviews, scrape_history, run_history, purge_pc, tx>>
    /\ UNCHANGED db_init
    /\ UNCHANGED <<clock, db, manifest, artifacts, purge_all_pc, futures>>

\* line 111: self.db.get_missing_ranges for the platform of this round; the
\* has_platform_history that may follow only feeds a log line.  An
\* AttributeError of the lookup goes to the except clause of line 218
run_pipeline_get_missing_ranges(w) ==
    /\ run[w].pc = "platform"
    /\ IF db = None
       THEN run_pipeline_returns(w, "failed")
       ELSE LET r == run[w]
                ranges == missing_ranges_of(r.current_start, r.current_end,
                                            PlatformList[r.platform])
                to == IF ranges # <<>>
                      THEN [r EXCEPT !.missing_ranges = ranges, !.k = 1, !.pc = "scrape"]
                      ELSE next_platform(r)
            IN /\ run' = [run EXCEPT ![w] = to]
               /\ UNCHANGED last
    /\ UNCHANGED <<reviews, scrape_history, run_history, purge_pc, tx>>
    /\ UNCHANGED db_init
    /\ UNCHANGED <<clock, db, manifest, artifacts, log, purge_all_pc, futures>>

\* lines 125-137: the scraper for the range of this round fetches its
\* reviews, and save_reviews stores them when there are any
run_pipeline_scrape(w) ==
    /\ run[w].pc = "scrape"
    /\ LET r == run[w]
           range == r.missing_ranges[r.k]
           new_reviews == scrape(PlatformList[r.platform], range[1], range[2])
       IN /\ new_reviews # <<>> => ~WriteLocked
          /\ reviews' = IF new_reviews # <<>>
                        THEN save_loop(new_reviews, 1, reviews, 0, 0).rows
                        ELSE reviews
          /\ run' = [run EXCEPT ![w] = [r EXCEPT !.pc = "mark", !.fetch_ok = TRUE,
                                                   !.scraper_calls = @ + 1]]
    /\ UNCHANGED <<scrape_history, run_history, purge_pc, tx, last>>
    /\ UNCHANGED db_init
    /\ UNCHANGED <<clock, db, manifest, artifacts, log, purge_all_pc, futures>>

\* the fetch fails (the network, the store's answer, the missing library):
\* the scraper logs the error and returns [], as when there is no review
run_pipeline_scrape_fails(w) ==
    /\ run[w].pc = "scrape"
    /\ run' = [run EXCEPT ![w] = [@ EXCEPT !.pc = "mark", !.fetch_ok = FALSE,
                                             !.scraper_calls = @ + 1]]
    /\ UNCHANGED <<reviews, scrape_history, run_history, purge_pc, tx, last>>
    /\ UNCHANGED db_init
    /\ UNCHANGED <<clock, db, manifest, artifacts, log, purge_all_pc, futures>>

\* line 141: self.db.mark_scraped(platform, m_start, m_end), whatever the
\* scraper returned
run_pipeline_mark_scraped(w) ==
    /\ run[w].pc = "mark"
    /\ ~WriteLocked
    /\ LET r == run[w]
           range == r.missing_ranges[r.k]
           to == IF r.k < Len(r.missing_ranges)
                 THEN [r EXCEPT !.k = @ + 1, !.pc = "scrape"]
                 ELSE next_platform(r)
       IN /\ scrape_history' = scrape_history \cup
                 scraped_rows(PlatformList[r.platform], range[1], range[2])
          /\ run' = [run EXCEPT ![w] = to]
    /\ UNCHANGED <<reviews, run_history, purge_pc, tx, last>>
    /\ UNCHANGED db_init
    /\ UNCHANGED <<clock, db, manifest, artifacts, log, purge_all_pc, futures>>

\* lines 144-152: get_cached_reviews; PulsePipelineError when there is no
\* review, else the reviews are written to data/raw
run_pipeline_get_cached_reviews(w) ==
    /\ run[w].pc = "cached"
    /\ LET r == run[w]
           all_reviews == cached_rows(r.current_start, r.current_end)
       IN IF all_reviews = {}
          THEN /\ run_pipeline_returns(w, "failed")
               /\ UNCHANGED artifacts
          ELSE /\ run' = [run EXCEPT ![w] =
                            [r EXCEPT !.pc = "analysis",
                                      !.reviews_count = Cardinality(all_reviews)]]
               /\ artifacts' = TRUE
               /\ UNCHANGED last
    /\ UNCHANGED <<reviews, scrape_history, run_history, purge_pc, tx>>
    /\ UNCHANGED db_init
    /\ UNCHANGED <<clock, db, manifest, log, purge_all_pc, futures>>

\* lines 154-188: the clustering, the report or the e-mail raises
run_pipeline_stage_raises(w) ==
    /\ run[w].pc = "analysis"
    /\ run_pipeline_returns(w, "failed")
    /\ UNCHANGED <<reviews, scrape_history, run_history, purge_pc, tx>>
    /\ UNCHANGED db_init
    /\ UNCHANGED <<clock, db, manifest, artifacts, log, purge_all_pc, futures>>

\* the text of a count, the columns of run_history holding texts
str(n) == <<"0", "1", "2", "3", "4">>[n + 1]

\* the record of lines 191-197
run_log(r) ==
    [run_id |-> r.run_id,
     start_date |-> date_isoformat(r.start_date.day),
     end_date |-> date_isoformat(r.end_date.day),
     reviews_processed |-> str(r.reviews_count),
     themes_identified |-> str(1)]

\* lines 190-216: save_run_log, _mark_week_completed for a run that is not
\* custom, return.  start_date.date() and end_date.date() are taken of the
\* parameters: None raises AttributeError, caught at line 218
run_pipeline_save_run_log(w) ==
    /\ run[w].pc = "analysis"
    /\ LET r == run[w]
       IN IF r.start_date = NoDateTime \/ r.end_date = NoDateTime
          THEN /\ run_pipeline_returns(w, "failed")
               /\ UNCHANGED <<run_history, manifest>>
          ELSE /\ ~WriteLocked
               /\ run_history' = insert_or_replace(run_history,
                                                   run_values(run_log(r), isoformat_now))
               /\ manifest' = IF is_custom_run(r) THEN manifest
                              ELSE marked_week(manifest, get_week_id)
               /\ run_pipeline_returns(w, "success")
    /\ UNCHANGED <<reviews, scrape_history, purge_pc, tx>>
    /\ UNCHANGED db_init
    /\ UNCHANGED <<clock, db, artifacts, log, purge_all_pc, futures>>

\* the steps of the scraping stage when every fetch works
run_pipeline_scraping(w) ==
    \/ run_pipeline_get_missing_ranges(w)
    \/ run_pipeline_scrape(w)
    \/ run_pipeline_mark_scraped(w)

run_pipeline(w) ==
    \/ run_pipeline_scraping(w)
    \/ run_pipeline_scrape_fails(w)
    \/ run_pipeline_get_cached_reviews(w)
    \/ run_pipeline_stage_raises(w)
    \/ run_pipeline_save_run_log(w)

\* _mark_week_completed, called on its own
mark_week_completed ==
    /\ manifest' = marked_week(manifest, get_week_id)
    /\ last' = [op |-> "_mark_week_completed", ret |-> None]
    /\ UNCHANGED <<reviews, scrape_history, run_history, purge_pc, tx>>
    /\ UNCHANGED db_init
    /\ UNCHANGED <<clock, db, run, artifacts, log, purge_all_pc, futures>>

\* purge_all_data, lines 230-240: every file of data/raw and data/processed
\* is removed, run_manifest.json among them
purge_all_data_clear_files ==
    /\ purge_all_pc = "idle"
    /\ artifacts' = FALSE
    /\ manifest' = <<>>
    /\ purge_all_pc' = "files_cleared"
    /\ UNCHANGED <<reviews, scrape_history, run_history, purge_pc, tx, last>>
    /\ UNCHANGED db_init
    /\ UNCHANGED <<clock, db, run, log, futures>>

\* line 243: self.db.reset_database(); an AttributeError of the lookup
\* leaves purge_all_data, else the thread enters purge_data
purge_all_data_reset_database ==
    /\ purge_all_pc = "files_cleared"
    /\ IF db = None
       THEN /\ purge_all_pc' = "idle"
            /\ last' = [op |-> "purge_all_data", ret |-> "AttributeError"]
       ELSE /\ purge_pc = "idle"
            /\ purge_all_pc' = "reset_database"
            /\ UNCHANGED last
    /\ UNCHANGED <<reviews, scrape_history, run_history, purge_pc, tx>>
    /\ UNCHANGED db_init
    /\ UNCHANGED <<clock, db, run, manifest, artifacts, log, futures>>

purge_all_data ==
    \/ purge_all_data_clear_files
    \/ purge_all_data_reset_database

\* POST /trigger: the run id is made up, run_pipeline is submitted to the
\* executor with it, and the id is returned
trigger_pipeline(n) ==
    /\ futures[n] = "none"
    /\ futures' = [futures EXCEPT ![n] = "submitted"]
    /\ last' = [op |-> "trigger_pipeline",
                ret |-> [status |-> "triggered", run_id |-> trigger_run_id(n)]]
    /\ UNCHANGED <<reviews, scrape_history, run_history, purge_pc, tx>>
    /\ UNCHANGED db_init
    /\ UNCHANGED <<clock, db, run, manifest, artifacts, log, purge_all_pc>>

\* the executor's thread calls orchestrator.run_pipeline(force=..., run_id=...):
\* run_pipeline has no parameter run_id, the call raises TypeError before its
\* first statement and the Future keeps the exception
executor_run(n) ==
    /\ futures[n] = "submitted"
    /\ futures' = [futures EXCEPT ![n] = "TypeError"]
    /\ UNCHANGED <<reviews, scrape_history, run_history, purge_pc, tx, last>>
    /\ UNCHANGED db_init
    /\ UNCHANGED <<clock, db, run, manifest, artifacts, log, purge_all_pc>>

\* time passes
tick ==
    /\ clock < MaxClock
    /\ clock' = clock + 1
    /\ UNCHANGED <<reviews, scrape_history, run_history, purge_pc, tx, last>>
    /\ UNCHANGED db_init
    /\ UNCHANGED <<db, run, manifest, artifacts, log, purge_all_pc, futures>>

----------------------------------------------------------------------------
(* Specifications *)

\* the state after construction, self.db resolving to d
InitWith(d) ==
    /\ reviews = {}
    /\ scrape_history = {}
    /\ run_history = {}
    /\ purge_pc = "idle"
    /\ tx = {}
    /\ last = [op |-> "__init__", ret |-> None]
    /\ initialized = FALSE
    /\ init_pc = [t \in Threads |-> "idle"]
    /\ schema_created = 0
    /\ clock = 0
    /\ db = d
    /\ run = [w \in Workers |-> IdleRun]
    /\ manifest = <<>>
    /\ artifacts = FALSE
    /\ log = FALSE
    /\ purge_all_pc = "idle"
    /\ futures = [n \in TriggerIds |-> "none"]

Init == InitWith(None)

InitPipeline == \E d \in db_lookup : InitWith(d)

\* start_date <= end_date, as the callers of the coverage tracker pass them
Intervals == {i \in DateTimes \X DateTimes : ticks(i[1]) <= ticks(i[2])}

\* the calls of the coverage tracker over every interval
CoverageCalls ==
    \E platform \in Platforms :
        \/ \E i \in Intervals :
              \/ get_missing_ranges(i[1], i[2], platform)
              \/ mark_scraped(platform, i[1], i[2])
        \/ has_platform_history(platform)

\* the calls of the run ledger for run r1, over every sample record
LedgerCalls ==
    \/ \E now \in Times :
          \E run_data \in RunData("r1") \cup {NoRunId} : upsert_run_log(run_data, now)
    \/ \E status \in Statuses, kwargs \in Kwargs :
          update_run_status("r1", status, kwargs)

ReviewCalls ==
    \E batch \in Batches : save_reviews(batch)

\* a few calls of each component, for the specifications that study another
FewCoverageCalls ==
    \/ mark_scraped("ios", combine(0, time_min), combine(1, time_max))
    \/ has_platform_history("ios")

FewLedgerCalls ==
    \/ upsert_run_log([run_id |-> "r2", status |-> "triggered", triggered_at |-> "T1"], "T1")
    \/ update_run_status("r2", "succeeded", [completed_at |-> "T2"])

FewReviewCalls ==
    save_reviews(<<[platform |-> "ios", rating |-> 5, reviewText |-> "Great app!",
                    date |-> [type |-> "str", value |-> <<0, 0, 0>>]]>>)

\* the limits handed to list_run_history
Limits == 1..2

\* the reads of the ledger, the cache and the coverage
FewReaderCalls ==
    \/ \E run_id \in RunIds : get_run_log(run_id)
    \/ \E limit \in Limits : list_run_history(limit)
    \/ get_cached_reviews(combine(0, time_min), combine(1, time_max))
    \/ \E platform \in Platforms :
          get_missing_ranges(combine(0, time_min), combine(1, time_max), platform)

\* coverage of the other platform
OtherPlatformCalls ==
    mark_scraped("android", combine(1, time_min), combine(1, time_max))

\* the ledger calls whose storage access fails
StorageFailures ==
    \/ upsert_run_log_except
    \/ update_run_status_except
    \/ get_run_log_except
    \/ list_run_history_except

\* the whole data layer, with a few calls of each component
Next ==
    \/ FewLedgerCalls
    \/ FewCoverageCalls
    \/ FewReviewCalls
    \/ FewReaderCalls
    \/ OtherPlatformCalls
    \/ StorageFailures
    \/ purge_data

Spec == Init /\ [][Next]_vars

\* the review store in full
NextReviews ==
    \/ ReviewCalls
    \/ \E i \in Intervals : get_cached_reviews(i[1], i[2])
    \/ purge_data

SpecReviews == Init /\ [][NextReviews]_vars

\* the schema initializer under the threads of one process, beside a few
\* calls of each component
NextSchema ==
    \/ \E t \in Threads : ensure_initialized(t)
    \/ FewLedgerCalls
    \/ FewCoverageCalls
    \/ FewReviewCalls
    \/ purge_data

SpecSchema == Init /\ [][NextSchema]_vars

\* the run ledger in full
NextLedger ==
    \/ LedgerCalls
    \/ FewLedgerCalls
    \/ FewCoverageCalls
    \/ FewReviewCalls
    \/ purge_data

SpecLedger == Init /\ [][NextLedger]_vars

\* the dashboard's view of the ledger: runs triggered at either time, moved
\* through their statuses, and listed under every limit
HistoryLimits == 1..3

HistoryCalls ==
    \/ \E run_id \in RunIds, now \in Times :
          upsert_run_log([run_id |-> run_id, status |-> "triggered"], now)
    \/ \E run_id \in RunIds, status \in Statuses \ {"triggered"} :
          update_run_status(run_id, status, <<>>)
    \/ \E limit \in HistoryLimits : list_run_history(limit)

NextHistory ==
    \/ HistoryCalls
    \/ purge_data

SpecHistory == Init /\ [][NextHistory]_vars

\* two custom ranges that overlap in day 1: the API's (dates at midnight)
\* and the dashboard's (whole days)
OverlappingDates ==
    { <<combine(0, time_min), combine(1, time_min)>>,
      <<combine(1, time_min), combine(MaxDay, time_max)>> }

\* the thread of the scheduled job, which runs one pipeline after the other
Scheduler == 1

\* the scheduled job's arguments and one custom range of whole days
FewPipelineDates ==
    { <<NoDateTime, NoDateTime>>,
      <<combine(0, time_min), combine(1, time_max)>> }

PipelineCalls ==
    \/ \E force \in BOOLEAN, dates \in FewPipelineDates :
          run_pipeline_enter(Scheduler, force, dates[1], dates[2])
    \/ run_pipeline(Scheduler)

\* the runs of one thread beside the purge of the database
NextPipeline ==
    \/ PipelineCalls
    \/ purge_data
    \/ tick

SpecPipeline == InitPipeline /\ [][NextPipeline]_vars

\* the purge of files and database and the run manifest, beside the runs of
\* one thread
NextPurgeAll ==
    \/ PipelineCalls
    \/ mark_week_completed
    \/ purge_all_data
    \/ purge_data

SpecPurgeAll == InitPipeline /\ [][NextPurgeAll]_vars

\* the trigger of the API beside the runs of one thread and the reads of
\* the ledger
NextTrigger ==
    \/ \E n \in TriggerIds : trigger_pipeline(n) \/ executor_run(n)
    \/ \E n \in TriggerIds : get_run_log(trigger_run_id(n))
    \/ PipelineCalls
    \/ tick

SpecTrigger == InitPipeline /\ [][NextTrigger]_vars

\* the scraping stage of the runs of every worker thread, with no purge
NextScrape ==
    \/ \E w \in Workers, dates \in OverlappingDates :
          /\ \A v \in 1..(w - 1) : run[v].pc # "idle"
          /\ run_pipeline_enter(w, FALSE, dates[1], dates[2])
    \/ \E w \in Workers :
          \/ run_pipeline_scraping(w)
          \/ run_pipeline_get_cached_reviews(w)
          \/ run_pipeline_save_run_log(w)

SpecScrape == InitPipeline /\ [][NextScrape]_vars

\* two invocations over ranges that overlap in day 1, each made once: the
\* first with the API's dates, the second with the dashboard's
First == <<combine(0, time_min), combine(1, time_min)>>
Second == <<combine(1, time_min), combine(MaxDay, time_max)>>
Invocations == <<First, Second>>

\* the run of invocation w has written its record
Recorded(w) ==
    \E r \in run_history :
       r.run_id = <<"custom", Invocations[w][1].day, Invocations[w][2].day, 0>>

\* the two invocations on two threads of the executor, their DataManager
\* calls interleaved
NextConcurrent ==
    \/ \E w \in DOMAIN Invocations :
          /\ ~Recorded(w)
          /\ run_pipeline_enter(w, FALSE, Invocations[w][1], Invocations[w][2])
    \/ \E w \in DOMAIN Invocations :
          \/ run_pipeline_scraping(w)
          \/ run_pipeline_get_cached_reviews(w)
          \/ run_pipeline_save_run_log(w)

SpecConcurrent == InitPipeline /\ [][NextConcurrent]_vars

\* forced runs, with dates and without, on two threads while time passes
NextRunIds ==
    \/ \E w \in DOMAIN Invocations, dates \in FewPipelineDates :
          run_pipeline_enter(w, TRUE, dates[1], dates[2])
    \/ \E w \in DOMAIN Invocations :
          \/ run_pipeline_scraping(w)
          \/ run_pipeline_get_cached_reviews(w)
          \/ run_pipeline_save_run_log(w)
    \/ tick

SpecRunIds == InitPipeline /\ [][NextRunIds]_vars

\* the coverage tracker in full
NextCoverage ==
    \/ CoverageCalls
    \/ purge_data

SpecCoverage == Init /\ [][NextCoverage]_vars

----------------------------------------------------------------------------
(* Coverage Tracker: properties *)

\* day is recorded as fetched for platform
covered(platform, day) ==
    [platform |-> platform, scrape_date |-> date_isoformat(day)] \in scrape_history

\* the calendar days of the interval that are not covered
MissingDays(start_date, end_date, platform) ==
    {d \in start_date.day..end_date.day : ~covered(platform, d)}

\* the calendar days a returned range spans, and those a list of ranges spans
RangeDays(range) == range[1].day..range[2].day
SpannedDays(ranges) == UNION {RangeDays(ranges[k]) : k \in 1..Len(ranges)}

\* no two ranges of the list overlap or are adjacent
Separated(ranges) ==
    \A j, k \in 1..Len(ranges) :
        j # k => \A d \in RangeDays(ranges[j]) :
                    d \notin RangeDays(ranges[k]) /\ d + 1 \notin RangeDays(ranges[k])

ExactGaps(ranges, start_date, end_date, platform) ==
    /\ SpannedDays(ranges) = MissingDays(start_date, end_date, platform)
    /\ Separated(ranges)
    /\ (ranges = <<>>) <=> (MissingDays(start_date, end_date, platform) = {})

\* C1: for every platform, coverage and interval start <= end, whatever the
\* times of day, the days spanned by the ranges get_missing_ranges returns are
\* exactly the uncovered days from start's date to end's date, no two ranges
\* overlap or are adjacent, and the list is empty iff every day is covered.
C1_MissingRangesExact ==
    [][\A platform \in Platforms, i \in Intervals :
          get_missing_ranges(i[1], i[2], platform)
              => ExactGaps(last'.ret, i[1], i[2], platform)]_vars

\* C9: for every platform and a <= b, whatever the times of day and the prior
\* coverage, once mark_scraped(p, a, b) has written its rows
\* get_missing_ranges(a, b, p) returns the empty list, and it keeps doing so,
\* because no step other than the commit of a purge removes a coverage row.
C9_MarkedIntervalHasNoGaps ==
    /\ [](\A platform \in Platforms, i \in Intervals :
             scraped_rows(platform, i[1], i[2]) \subseteq scrape_history
                 => missing_ranges_of(i[1], i[2], platform) = <<>>)
    /\ [][\/ purge_pc = "deleted_reviews" /\ purge_pc' = "committed"
          \/ scrape_history \subseteq scrape_history']_vars

\* a call over an interval whose days are all marked has returned the empty
\* list, both platforms having coverage
C9_Witness ==
    /\ last.op = "get_missing_ranges"
    /\ last.ret = <<>>
    /\ \A platform \in Platforms : \E day \in Days : covered(platform, day)
    /\ \E platform \in Platforms : \E day \in Days : ~covered(platform, day)

\* C10: mark_scraped(p, a, b) adds to p's coverage exactly the calendar days
\* from a's date to b's date, whatever the times of day, touches no other
\* day or platform, and returns normally (so a second call changes nothing).
C10_MarkScrapedExactDays ==
    [][\A platform \in Platforms, i \in Intervals :
          mark_scraped(platform, i[1], i[2])
              => /\ scrape_history' = scrape_history \cup
                        { [platform |-> platform, scrape_date |-> date_isoformat(d)] :
                            d \in i[1].day..i[2].day }
                 /\ last'.ret = None]_vars

----------------------------------------------------------------------------
(* Purge Coordinator: properties *)

HasActiveRun ==
    \E r \in run_history : r.status = "triggered" \/ r.status = "running"

\* C2: when run_history holds a triggered or running row as purge_data is
\* called, the call fails with the purge-blocked failure (RuntimeError, not the
\* storage failure) and reviews, scrape_history and run_history are unchanged.
C2_PurgeRefusedWhileActive ==
    [][(HasActiveRun /\ purge_data_guard)
          => /\ purge_pc' = "idle"
             /\ last'.op = "purge_data"
             /\ last'.ret = "RuntimeError"
             /\ last'.ret # "sqlite3.Error"
             /\ UNCHANGED <<reviews, scrape_history, run_history, tx>>]_vars

\* a purge was refused with all three tables holding rows
C2_Witness ==
    /\ last.op = "purge_data"
    /\ last.ret = "RuntimeError"
    /\ purge_pc = "idle"
    /\ HasActiveRun
    /\ reviews # {}
    /\ scrape_history # {}

\* C3: under any interleaving of purge_data with upsert_run_log and
\* update_run_status calls of other threads, no step removes the record of a
\* run that is triggered or running.
C3_PurgeNeverDeletesActiveRun ==
    [][\A r \in run_history :
          (r.status = "triggered" \/ r.status = "running")
              => \E r2 \in run_history' : r2.run_id = r.run_id]_vars

\* C4: the three deletes are all-or-nothing: a step of purge_data, or a step
\* taken while its transaction is open, changes the committed tables (what
\* every reader reads) only by the commit, which empties all three together;
\* a failed delete therefore leaves all three as they were before the purge.
C4_PurgeAllOrNothing ==
    [][((WriteLocked \/ purge_pc' # purge_pc)
           /\ <<reviews, scrape_history, run_history>>' # <<reviews, scrape_history, run_history>>)
          => /\ purge_pc = "deleted_reviews"
             /\ purge_pc' = "committed"
             /\ reviews' = {}
             /\ scrape_history' = {}
             /\ run_history' = {}]_vars

\* two of the three DELETEs are pending and every table still holds its rows
C4_Witness ==
    /\ purge_pc = "deleted_scrape_history"
    /\ tx = {"run_history", "scrape_history"}
    /\ reviews # {}
    /\ scrape_history # {}
    /\ run_history # {}

----------------------------------------------------------------------------
(* Run Ledger: properties *)

Columns == {"run_id", "status", "trigger_source", "triggered_by", "start_date",
            "end_date", "triggered_at", "started_at", "completed_at",
            "reviews_processed", "themes_identified", "error_message"}

\* every record and keyword set a specification hands to the ledger
AllRunData ==
    RunData("r1") \cup {[run_id |-> "r2", status |-> "triggered", triggered_at |-> "T1"]}
AllKwargs == Kwargs \cup {[completed_at |-> "T2"]}

RowsOf(rows, id) == {r \in rows : r.run_id = id}

LegalTransitions ==
    { <<"triggered", "running">>, <<"triggered", "succeeded">>,
      <<"triggered", "failed">>, <<"running", "succeeded">>,
      <<"running", "failed">> }

\* C5 as claimed: for every run id, across any sequence of upsert_run_log and
\* update_run_status calls, the stored status starts at triggered and changes
\* only along triggered->running, triggered->succeeded, triggered->failed,
\* running->succeeded, running->failed; no other value is ever stored.
C5_OnlyLegalTransitions ==
    [][\A id \in RunIds :
          \A a \in RowsOf(run_history', id) :
              /\ a.status \in Statuses
              /\ RowsOf(run_history, id) = {} => a.status = "triggered"
              /\ \A b \in RowsOf(run_history, id) :
                    b.status # a.status => <<b.status, a.status>> \in LegalTransitions]_vars

\* C5 as amended: the stored status of a run is set only by upsert_run_log
\* and update_run_status calls for that run id, and is what the call supplies:
\* upsert_run_log stores the record's status, or triggered when the record
\* gives none; update_run_status stores the status it is passed, on a row
\* that exists.  The store checks neither the value nor the transition.
C5_StatusIsWhatTheCallSupplies ==
    [][\A id \in RunIds :
          \A a \in RowsOf(run_history', id) :
              (\A b \in RowsOf(run_history, id) : b.status # a.status)
                  => \/ \E run_data \in AllRunData, now \in Times :
                           /\ run_data.run_id = id
                           /\ upsert_run_log(run_data, now)
                           /\ a.status = IF "status" \in DOMAIN run_data
                                         THEN run_data.status
                                         ELSE "triggered"
                     \/ \E kwargs \in AllKwargs :
                           /\ RowsOf(run_history, id) # {}
                           /\ update_run_status(id, a.status, kwargs)]_vars

\* the row that an upsert created as succeeded was taken to running by
\* update_run_status
C5_Witness ==
    /\ last.op = "update_run_status"
    /\ \E r \in run_history :
          r.run_id = "r1" /\ r.trigger_source = "api" /\ r.status = "running"

\* C6 as claimed: once a run's stored status is succeeded or failed, no
\* operation other than a purge changes any field of its record.
C6_TerminalRecordFrozen ==
    [][\A r \in run_history :
          (r.status = "succeeded" \/ r.status = "failed")
              => \/ r \in run_history'
                 \/ purge_pc = "deleted_reviews" /\ purge_pc' = "committed"]_vars

\* C6 as amended: a record whose status is succeeded or failed is changed
\* only by a purge or by a later upsert_run_log or update_run_status call for
\* the same run id (which the store applies without looking at the status);
\* calls for other run ids, reads, save_reviews and mark_scraped leave it.
C6_TerminalRecordChangedOnlyByItsOwnRun ==
    [][\A r \in run_history :
          ((r.status = "succeeded" \/ r.status = "failed") /\ r \notin run_history')
              => \/ purge_pc = "deleted_reviews" /\ purge_pc' = "committed"
                 \/ \E run_data \in AllRunData, now \in Times :
                       run_data.run_id = r.run_id /\ upsert_run_log(run_data, now)
                 \/ \E status \in Statuses, kwargs \in AllKwargs :
                       update_run_status(r.run_id, status, kwargs)]_vars

\* the record r1 that an upsert stored as succeeded was changed by a later
\* update_run_status while the succeeded record of r2 stayed
C6_Witness ==
    /\ last.op = "update_run_status"
    /\ \E r \in run_history :
          /\ r.run_id = "r1" /\ r.trigger_source = "api"
          /\ r.status = "failed" /\ r.error_message = "boom"
    /\ \E r \in run_history :
          r.run_id = "r2" /\ r.status = "succeeded" /\ r.completed_at = "T2"

\* the row upsert_run_log is to leave: the record's fields, the defaults of
\* the statement for the fields the record omits
ExpectedRow(run_data, now) ==
    [c \in Columns |->
        IF c \in DOMAIN run_data THEN run_data[c]
        ELSE IF c = "status" THEN "triggered"
        ELSE IF c = "trigger_source" THEN "manual"
        ELSE IF c = "triggered_at" THEN now
        ELSE None]

\* C7: run_history never holds two rows with one run_id, and after
\* upsert_run_log(r) the row of r's run_id carries exactly r's fields, with
\* the defaults for the fields r omits, whatever that row held before.
C7_UpsertOneRowPerRun ==
    /\ [](\A r1 \in run_history, r2 \in run_history : r1.run_id = r2.run_id => r1 = r2)
    /\ [][\A run_data \in AllRunData, now \in Times :
             upsert_run_log(run_data, now)
                 => RowsOf(run_history', run_data.run_id) = {ExpectedRow(run_data, now)}]_vars

\* r1's row is the one of the upsert that gave no status, beside r2's row
C7_Witness ==
    /\ last.op = "upsert_run_log"
    /\ Cardinality(run_history) = 2
    /\ \E r \in run_history :
          /\ r.run_id = "r1" /\ r.status = "triggered" /\ r.trigger_source = "manual"
          /\ r.start_date = "D0" /\ r.triggered_at = "T2" /\ r.started_at = None

\* C8: update_run_status(id, s, fields) changes only the status and the
\* supplied fields among started_at, completed_at, reviews_processed,
\* themes_identified, error_message of the row of that id; the other columns,
\* the other rows and the number of rows stay; with no row of that id nothing
\* changes, no row is created and the call returns normally.
C8_UpdatePatchesOneRow ==
    [][\A id \in RunIds, status \in Statuses, kwargs \in AllKwargs :
          (last'.op = "update_run_status" /\ update_run_status(id, status, kwargs))
              => /\ last'.ret = None
                 /\ Cardinality(run_history') = Cardinality(run_history)
                 /\ \A r \in run_history : r.run_id # id => r \in run_history'
                 /\ \A r \in RowsOf(run_history, id) :
                       \E r2 \in run_history' :
                           \A c \in Columns :
                               r2[c] = IF c = "status" THEN status
                                       ELSE IF c \in DOMAIN kwargs /\ c \in
                                               {"started_at", "completed_at",
                                                "reviews_processed",
                                                "themes_identified", "error_message"}
                                       THEN kwargs[c]
                                       ELSE r[c]
                 /\ RowsOf(run_history, id) = {} => run_history' = run_history]_vars

\* r1 went to succeeded with its counters set and the other columns kept,
\* beside r2's row
C8_Witness ==
    /\ last.op = "update_run_status"
    /\ \E r \in run_history :
          /\ r.run_id = "r1" /\ r.status = "succeeded"
          /\ r.reviews_processed = "42" /\ r.themes_identified = "3"
          /\ r.completed_at = "T2" /\ r.started_at = "T1"
          /\ r.trigger_source = "api" /\ r.triggered_by = "alice"
    /\ \E r \in run_history : r.run_id = "r2"

----------------------------------------------------------------------------
(* Coverage Tracker: the boundaries of the ranges *)

\* C11: in the list get_missing_ranges(s, e, p) returns the ranges ascend;
\* the first range starts exactly at s, time of day included, when s's day is
\* missing; the last range ends exactly at e when e's day is missing; every
\* other start is a midnight and every other end an end-of-day; and with no
\* day of the interval covered the list is the single range (s, e).
C11_RangeBoundaries ==
    [][\A platform \in Platforms, i \in Intervals :
          get_missing_ranges(i[1], i[2], platform)
              => LET ranges == last'.ret
                     n == Len(ranges)
                     s_missing == ~covered(platform, i[1].day)
                     e_missing == ~covered(platform, i[2].day)
                 IN /\ \A k \in 1..(n - 1) : ticks(ranges[k][2]) < ticks(ranges[k + 1][1])
                    /\ s_missing => (n > 0 /\ ranges[1][1] = i[1])
                    /\ e_missing => (n > 0 /\ ranges[n][2] = i[2])
                    /\ \A k \in 1..n :
                          /\ (k = 1 /\ s_missing) \/ ranges[k][1].tod = time_min
                          /\ (k = n /\ e_missing) \/ ranges[k][2].tod = time_max
                    /\ MissingDays(i[1], i[2], platform) = i[1].day..i[2].day
                          => ranges = << <<i[1], i[2]>> >>]_vars

----------------------------------------------------------------------------
(* Review Store: properties *)

\* the dedup key of a row
Key(row) == <<row.platform, row.review_text, row.date>>

\* a row with the key of row is among rows
KeyStored(rows, row) == \E x \in rows : Key(x) = Key(row)

\* the timestamp a stored date text stands for
fromisoformat(text) == combine(text[1] * 10 + text[2], text[3])

\* a step of save_reviews: the call that has just returned is save_reviews
\* and no thread inside purge_data or ensure_initialized has moved
SaveStep ==
    /\ last'.op = "save_reviews"
    /\ purge_pc' = purge_pc
    /\ init_pc' = init_pc

\* the rows a batch leaves in the table when saved over rows
SavedOver(rows, batch) == save_loop(batch, 1, rows, 0, 0).rows

\* C12: save_reviews returns exactly the number of rows it added: the size of
\* table reviews after the call minus its size before, for every batch, with
\* new records, stored records, records repeated in the batch and malformed
\* records.
C12_SavedCountIsRowsAdded ==
    [][SaveStep => last'.ret = Cardinality(reviews') - Cardinality(reviews)]_vars

\* C13: no two stored reviews share (platform, review text, timestamp); a
\* batch whose well-formed records all have their key stored leaves the table
\* as it is; a batch saved over what its first save left changes nothing; and
\* save_reviews returns a count, never an error, removing no row.
C13_SaveIsIdempotentOnKey ==
    /\ [](/\ \A r1 \in reviews, r2 \in reviews : Key(r1) = Key(r2) => r1 = r2
          /\ \A batch \in Batches :
                /\ (\A k \in 1..Len(batch) :
                       ~raises_key_error(batch[k])
                           => KeyStored(reviews, review_values(batch[k])))
                      => SavedOver(reviews, batch) = reviews
                /\ SavedOver(SavedOver(reviews, batch), batch) = SavedOver(reviews, batch))
    /\ [][SaveStep
             => /\ last'.ret \in Nat
                /\ reviews \subseteq reviews'
                /\ \A r \in reviews' \ reviews : \A x \in reviews : Key(x) # Key(r)]_vars

\* the record of the first key is stored once, with the rating of the save
\* that came first, beside two other reviews, and a save has just run
C13_Witness ==
    /\ last.op = "save_reviews"
    /\ Cardinality(reviews) = 3
    /\ \E r \in reviews : r.review_text = "Great app!" /\ r.rating = 1

\* C19: a malformed record of a batch (one that lacks platform, rating or
\* date) is skipped and the batch goes on: every well-formed record of the
\* batch, before or after it, has its key stored after the call, the record
\* itself when its key was not stored and it is the first of the batch with
\* that key, and the call returns its count.
C19_MalformedRecordSkipped ==
    /\ [](\A batch \in Batches :
             \A k \in 1..Len(batch) :
                 ~raises_key_error(batch[k])
                     => LET row == review_values(batch[k])
                            after == SavedOver(reviews, batch)
                        IN /\ KeyStored(after, row)
                           /\ (/\ ~KeyStored(reviews, row)
                               /\ \A j \in 1..(k - 1) :
                                     ~raises_key_error(batch[j])
                                         => Key(review_values(batch[j])) # Key(row))
                                 => row \in after)
    /\ [][SaveStep => last'.ret \in Nat]_vars

\* a save has returned 1 with one review stored: of the batches that store
\* "Crash" alone several hold a malformed record before or after it
C19_Witness ==
    /\ last.op = "save_reviews"
    /\ last.ret = 1
    /\ \E r \in reviews : r.review_text = "Crash"
    /\ Cardinality(reviews) = 1

\* C20: get_cached_reviews(s, e) returns exactly the stored reviews, of every
\* platform, whose timestamp t has s <= t <= e, both bounds included, and
\* changes no state.
C20_CachedReviewsInClosedInterval ==
    [][\A i \in Intervals :
          (last'.op = "get_cached_reviews" /\ get_cached_reviews(i[1], i[2]))
              => /\ last'.ret = { r \in reviews :
                                    /\ ticks(i[1]) <= ticks(fromisoformat(r.date))
                                    /\ ticks(fromisoformat(r.date)) <= ticks(i[2]) }
                 /\ UNCHANGED <<reviews, scrape_history, run_history, purge_pc, tx>>]_vars

\* a read has returned reviews of both platforms, among them the one stamped
\* with midnight of day 1, and left another stored review out
C20_Witness ==
    /\ last.op = "get_cached_reviews"
    /\ \E r \in last.ret : r.platform = "ios"
    /\ \E r \in last.ret : r.platform = "android" /\ r.date = <<0, 1, 0>>
    /\ \E r \in reviews : r \notin last.ret

----------------------------------------------------------------------------
(* Purge Coordinator: the store after a purge *)

\* all three tables are empty and no transaction holds the write lock
Emptied ==
    /\ reviews = {}
    /\ scrape_history = {}
    /\ run_history = {}
    /\ tx = {}
    /\ ~WriteLocked

\* a step of a DataManager call, not of a thread inside purge_data or
\* ensure_initialized
CallStep(op) ==
    /\ last'.op = op
    /\ purge_pc' = purge_pc
    /\ init_pc' = init_pc

\* C14: a purge that passed its guard leaves reviews, scrape_history and
\* run_history empty at its commit, its schema step touches no row and the
\* call returns normally; on the emptied store, which no transaction locks,
\* has_platform_history is false for every platform, get_missing_ranges
\* reports one range over all the days of the requested interval, and
\* save_reviews, mark_scraped and upsert_run_log store their rows.
C14_PurgeLeavesStoreEmptyAndUsable ==
    /\ [][purge_data_commit => Emptied']_vars
    /\ [][purge_data_init_db
             => /\ UNCHANGED <<reviews, scrape_history, run_history, tx>>
                /\ last' = [op |-> "purge_data", ret |-> None]
                /\ purge_pc' = "idle"]_vars
    /\ [](Emptied
             => \A platform \in Platforms, i \in Intervals :
                   LET ranges == missing_ranges_of(i[1], i[2], platform)
                   IN /\ Len(ranges) = 1
                      /\ RangeDays(ranges[1]) = i[1].day..i[2].day)
    /\ [][Emptied
             => /\ CallStep("has_platform_history") => last'.ret = FALSE
                /\ CallStep("get_missing_ranges") => Len(last'.ret) = 1
                /\ CallStep("save_reviews")
                      => (Cardinality(reviews') = 1 /\ last'.ret = 1)
                /\ \A platform \in Platforms, i \in Intervals :
                      mark_scraped(platform, i[1], i[2])
                          => covered(platform, i[1].day)'
                /\ \A run_data \in AllRunData, now \in Times :
                      upsert_run_log(run_data, now)
                          => run_history' = {ExpectedRow(run_data, now)}]_vars

\* purge_data has returned normally and the three tables are empty
C14_Witness ==
    /\ last = [op |-> "purge_data", ret |-> None]
    /\ purge_pc = "idle"
    /\ Emptied

----------------------------------------------------------------------------
(* Run Ledger: storage failures *)

\* C15: a failure of the store during upsert_run_log, update_run_status,
\* list_run_history or get_run_log reaches the caller as an outcome unlike a
\* normal result: get_run_log returns the empty result only when no row has
\* the run id, list_run_history returns the empty list only when there is no
\* row, and upsert_run_log and update_run_status do not return normally when
\* the write did not happen.
C15_StorageFailureSurfaced ==
    [][/\ (CallStep("get_run_log") /\ last'.ret = EmptyDict)
             => \E run_id \in RunIds :
                   /\ get_run_log(run_id) \/ get_run_log_except
                   /\ RowsOf(run_history, run_id) = {}
       /\ (CallStep("list_run_history") /\ last'.ret = EmptyList)
             => run_history = {}
       /\ upsert_run_log_except => last'.ret # None
       /\ update_run_status_except => last'.ret # None]_vars

----------------------------------------------------------------------------
(* Coverage Tracker: what the result of get_missing_ranges depends on *)

\* the coverage rows of a platform
PlatformRows(rows, platform) == {r \in rows : r.platform = platform}

\* C17: get_missing_ranges changes no stored state, and for every s, e, p
\* the list it returns for (s, e, p) is the same before and after every step
\* that leaves the coverage rows of p as they are; those rows change only by
\* a mark_scraped for p or by the commit of a purge, so save_reviews, the
\* ledger writes and mark_scraped for another platform do not change it.
C17_MissingRangesDependOnOwnCoverage ==
    [][/\ CallStep("get_missing_ranges")
             => UNCHANGED <<reviews, scrape_history, run_history, tx>>
       /\ \A platform \in Platforms :
             IF PlatformRows(scrape_history', platform)
                    = PlatformRows(scrape_history, platform)
             THEN \A i \in Intervals :
                     missing_ranges_of(i[1], i[2], platform)'
                         = missing_ranges_of(i[1], i[2], platform)
             ELSE \/ purge_pc = "deleted_reviews" /\ purge_pc' = "committed"
                  \/ \E i \in Intervals : mark_scraped(platform, i[1], i[2])]_vars

\* get_missing_ranges has reported both days missing for one platform with
\* the other platform covered, reviews stored and a run recorded
C17_Witness ==
    /\ last.op = "get_missing_ranges"
    /\ last.ret = << <<combine(0, time_min), combine(1, time_max)>> >>
    /\ \E p \in Platforms : covered(p, 1)
    /\ \E p \in Platforms : ~covered(p, 0) /\ ~covered(p, 1)
    /\ reviews # {}
    /\ run_history # {}

----------------------------------------------------------------------------
(* Schema Initializer: properties *)

\* C16: however many threads of the process call ensure_initialized, and
\* however often, _create_schema runs to its commit at most once; a call
\* made once the flag is set returns without touching the store, and no step
\* of ensure_initialized removes or changes a row.
C16_SchemaCreatedOnce ==
    /\ [](schema_created <= 1)
    /\ [][\A t \in Threads :
             ensure_initialized(t)
                 => /\ UNCHANGED <<reviews, scrape_history, run_history, tx>>
                    /\ initialized => (schema_created' = schema_created
                                          /\ init_pc' = init_pc)]_vars

\* the ids of the runs on record
RunIdsOf(rows) == {r.run_id : r \in rows}

\* C18: no step other than the commit of a purge removes or alters a stored
\* review or coverage day or removes a run's record: across save_reviews,
\* mark_scraped, upsert_run_log, update_run_status, schema initialisation and
\* reads, reviews and scrape_history only grow, platform by platform, and
\* the set of run ids in run_history only grows.
C18_OnlyPurgeRemoves ==
    [][\/ purge_pc = "deleted_reviews" /\ purge_pc' = "committed"
       \/ /\ reviews \subseteq reviews'
          /\ \A platform \in Platforms :
                PlatformRows(scrape_history, platform)
                    \subseteq PlatformRows(scrape_history', platform)
          /\ RunIdsOf(run_history) \subseteq RunIdsOf(run_history')]_vars

\* the schema was initialised by a thread of the process with rows in all
\* three tables, the run's record already patched by update_run_status
C18_Witness ==
    /\ last = [op |-> "ensure_initialized", ret |-> None]
    /\ initialized
    /\ schema_created > 0
    /\ reviews # {}
    /\ scrape_history # {}
    /\ \E r \in run_history : r.status = "succeeded"

----------------------------------------------------------------------------
(* Run Ledger: the listing of the runs *)

\* run a was triggered after run b
TriggeredLater(a, b) == a.triggered_at = "T2" /\ b.triggered_at = "T1"

Smaller(a, b) == IF a < b THEN a ELSE b

\* C21: list_run_history(limit) returns min(limit, number of stored runs)
\* rows of run_history, each once and whatever its status, in non-increasing
\* order of trigger time, and no stored run triggered later than a returned
\* one is left out.
C21_ListNewestFirst ==
    [][\A limit \in HistoryLimits :
          list_run_history(limit) =>
             LET ret == last'.ret
             IN /\ Len(ret) = Smaller(limit, Cardinality(run_history))
                /\ \A k \in DOMAIN ret : ret[k] \in run_history
                /\ \A j, k \in DOMAIN ret : j # k => ret[j] # ret[k]
                /\ \A j, k \in DOMAIN ret : j < k => ~TriggeredLater(ret[k], ret[j])
                /\ \A r \in run_history :
                      (\E k \in DOMAIN ret : TriggeredLater(r, ret[k]))
                         => \E k \in DOMAIN ret : ret[k] = r]_vars

\* two runs are stored, the older one active and the newer one terminal, and
\* a listing under limit 1 returned the newer one alone
C21_Witness ==
    /\ last.op = "list_run_history"
    /\ Len(last.ret) = 1
    /\ last.ret[1] \in run_history
    /\ last.ret[1].status = "succeeded"
    /\ \E r \in run_history :
          /\ TriggeredLater(last.ret[1], r)
          /\ r.status \in ACTIVE

----------------------------------------------------------------------------
(* Orchestrator: the run and the ledger *)

\* worker w is inside run_pipeline, past the idempotency check
Executing(w) == run[w].pc # "idle"

\* worker w has started its first fetch and has not returned
Fetching(w) == run[w].pc \in {"scrape", "mark", "cached", "analysis"}

\* worker w returns from run_pipeline in this step
Returns(w) == Executing(w) /\ run'[w].pc = "idle"

\* C22: from the start of its first fetch to its return, a run has a row in
\* run_history under its run id whose status is triggered or running, and a
\* purge_data called while a run is executing is refused with RuntimeError.
C22_RunActiveWhileExecuting ==
    /\ [](\A w \in Workers :
            Fetching(w) => \E r \in run_history : /\ r.run_id = run[w].run_id
                                                  /\ r.status \in ACTIVE)
    /\ [][(purge_data_guard /\ \E w \in Workers : Executing(w))
             => /\ purge_pc' = "idle"
                /\ last' = [op |-> "purge_data", ret |-> "RuntimeError"]]_vars

\* C23: when run_pipeline returns, the record of the run is terminal:
\* succeeded, with reviews_processed and themes_identified set, when the
\* pipeline completed, failed when it raised; no returned run has a record
\* in triggered or running.
C23_TerminalRecordOnReturn ==
    [][\A w \in Workers :
          Returns(w) =>
             LET mine == RowsOf(run_history', run[w].run_id)
             IN /\ last'.ret = "success"
                     => \E r \in mine : /\ r.status = "succeeded"
                                         /\ r.reviews_processed # None
                                         /\ r.themes_identified # None
                /\ last'.ret = "failed"
                     => \E r \in mine : r.status = "failed"
                /\ \A r \in mine : r.status \notin ACTIVE]_vars

----------------------------------------------------------------------------
(* Orchestrator: the scraping stage *)

\* worker w marks the range of its round in this step
Marks(w) == run[w].pc = "mark" /\ run'[w].pc # "mark"

FullyCovered(interval) ==
    \A platform \in Platforms :
       missing_ranges_of(interval[1], interval[2], platform) = <<>>

Interval(r) == <<r.current_start, r.current_end>>

\* worker w calls get_missing_ranges for the platform of its round, calls a
\* scraper, leaves its scraping stage in this step
GetsMissingRanges(w) ==
    run[w].pc = "platform" /\ run'[w] # run[w] /\ run'[w].pc # "idle"
Scrapes(w) == run[w].pc = "scrape" /\ run'[w].pc = "mark"
FinishesScraping(w) == run[w].pc \in {"platform", "mark"} /\ run'[w].pc = "cached"

PurgeAllStep == purge_all_pc' # purge_all_pc

TaskDone(n) == futures[n] \notin {"none", "submitted"}

\* C27: the run id POST /trigger returned names the run its background
\* thread executes: once the thread has executed the task, the ledger holds
\* a record with that run id (nothing writes one later, so a record missing
\* then is missing for good and GET /runs/R keeps answering 404).
C27_TriggeredRunRecorded ==
    \A n \in TriggerIds :
       TaskDone(n) => trigger_run_id(n) \in RunIdsOf(run_history)

\* week_id is in completed_weeks
Listed(completed_weeks, week_id) ==
    \E j \in DOMAIN completed_weeks : completed_weeks[j] = week_id

\* this step is a non-forced run without dates returning "skipped"
Skips ==
    /\ last' # last
    /\ last' = [op |-> "run_pipeline", ret |-> "skipped"]

\* C28: the current week is listed in the run manifest exactly when
\* _mark_week_completed was called in that week, and at most once: the
\* manifest changes only by a call that lists the current week, and a week
\* that is listed stays listed.  A non-forced run without dates is skipped
\* only when the current week is listed, and it leaves the store and the
\* run's state alone; a run marks the week only when it is not custom and
\* returns success.
C28_WeekListedIffMarked ==
    /\ [](\A j, k \in DOMAIN manifest : manifest[j] = manifest[k] => j = k)
    /\ [][/\ manifest' # manifest
               => /\ manifest' = marked_week(manifest, get_week_id)
                  /\ \/ last' = [op |-> "_mark_week_completed", ret |-> None]
                     \/ /\ last' = [op |-> "run_pipeline", ret |-> "success"]
                        /\ ~is_custom_run(run[Scheduler])
          /\ \A j \in DOMAIN manifest : Listed(manifest', manifest[j])
          /\ Skips => /\ already_run_this_week
                      /\ UNCHANGED <<reviews, scrape_history, run_history, run>>]_vars

\* the days of platform within the range that rows records as covered
covered_in(rows, start_date, end_date, platform) ==
    { row.scrape_date : row \in
        { r \in rows :
            /\ r.platform = platform
            /\ text_le(date_isoformat(start_date.day), r.scrape_date)
            /\ text_le(r.scrape_date, date_isoformat(end_date.day)) } }

\* what get_missing_ranges returns when scrape_history holds rows
missing_ranges_in(rows, start_date, end_date, platform) ==
    LET w == walk_days(0, days_needed(start_date, end_date), start_date,
                       covered_in(rows, start_date, end_date, platform),
                       <<>>, NoDateTime)
    IN IF w.current_start # NoDateTime
       THEN Append(w.missing_ranges, <<w.current_start, end_date>>)
       ELSE w.missing_ranges

\* the store after the loop over the missing ranges of one platform, run
\* with no other thread in between
RECURSIVE scrape_ranges(_, _, _, _)
scrape_ranges(store, platform, missing_ranges, k) ==
    IF k > Len(missing_ranges)
    THEN store
    ELSE LET range == missing_ranges[k]
             new_reviews == scrape(platform, range[1], range[2])
         IN scrape_ranges(
               [reviews |-> IF new_reviews # <<>>
                            THEN save_loop(new_reviews, 1, store.reviews, 0, 0).rows
                            ELSE store.reviews,
                scrape_history |-> store.scrape_history \cup
                                     scraped_rows(platform, range[1], range[2])],
               platform, missing_ranges, k + 1)

\* the store after the scraping stage of a run over interval, from platform
\* p on, run with no other thread in between
RECURSIVE scraping_stage(_, _, _)
scraping_stage(store, interval, p) ==
    IF p > Len(PlatformList)
    THEN store
    ELSE scraping_stage(
            scrape_ranges(store, PlatformList[p],
                          missing_ranges_in(store.scrape_history, interval[1],
                                            interval[2], PlatformList[p]),
                          1),
            interval, p + 1)

\* the store after a run over a and then a run over b, from an empty store
Sequential(a, b) ==
    scraping_stage(scraping_stage([reviews |-> {}, scrape_history |-> {}], a, 1),
                   b, 1)

WritesRecord(w) ==
    /\ run[w].pc = "analysis"
    /\ run'[w].pc = "idle"
    /\ run[w].run_id \in RunIdsOf(run_history')
    /\ last' = [op |-> "run_pipeline", ret |-> "success"]

\* the ledger write of a run never replaces the record of an earlier run
RecordNeverReplaced ==
    [][\A w \in Workers :
          WritesRecord(w) => run[w].run_id \notin RunIdsOf(run_history)]_vars

\* C30: distinct invocations of the pipeline have distinct run ids: two
\* runs that execute at one time never carry the same id, and the ledger
\* write of a run never replaces the record of an earlier run.
C30_DistinctRunIds ==
    /\ [](\A v, w \in Workers :
            (v # w /\ Executing(v) /\ Executing(w))
               => run[v].run_id # run[w].run_id)
    /\ RecordNeverReplaced
====
